---- MODULE Spec2Model ----
(***************************************************************************)
(* Model of 3dssmb.py: an FTP-like shell (ClientCmd) over one SMB          *)
(* connection.  Paths are sequences of one-character strings so that the   *)
(* ntpath functions the shell calls can be computed character by           *)
(* character; numbers that exceed machine integers (byte counts) are       *)
(* sequences of base-1024 digits, most significant first.                  *)
(***************************************************************************)
EXTENDS Integers, Sequences, FiniteSets, TLC

\* ------------------------------------------------------------------------
\* Generic helpers
\* ------------------------------------------------------------------------

Sep == "\\"

AltSep == "/"

Colon == ":"

IsSep(c) == c \in {Sep, AltSep}

\* The element of a one-element set: The({e(v) : v \in {x}}) is e(x) with
\* x computed once, as a local variable is
The(S) == CHOOSE x \in S : TRUE

Last(s) == s[Len(s)]

\* str.replace(altsep, sep)
ReplaceAlt(p) == [i \in 1..Len(p) |-> IF p[i] = AltSep THEN Sep ELSE p[i]]

\* str.find(c, start) with 1-based positions; 0 when absent
Find(p, c, start) ==
    LET hits == {i \in start..Len(p) : p[i] = c}
    IN  IF hits = {} THEN 0 ELSE CHOOSE i \in hits : \A j \in hits : i <= j

\* str.lower() on the characters the model uses
LowerChar(c) ==
    CASE c = "A" -> "a"
      [] c = "B" -> "b"
      [] OTHER   -> c

Lower(p) == [i \in 1..Len(p) |-> LowerChar(p[i])]

\* ------------------------------------------------------------------------
\* ntpath, as called by ClientCmd._path_for and do_get / do_mget / do_mv
\* ------------------------------------------------------------------------

\* ntpath.splitdrive: <<drive, rest>>
splitdrive(p) ==
    IF Len(p) >= 2
    THEN LET normp == ReplaceAlt(p) IN
         IF normp[1] = Sep /\ normp[2] = Sep
         THEN LET index == Find(normp, Sep, 3) IN
              IF index = 0
              THEN <<p, <<>>>>
              ELSE LET index2 == Find(normp, Sep, index + 1) IN
                   IF index2 = 0
                   THEN <<p, <<>>>>
                   ELSE <<SubSeq(p, 1, index2 - 1), SubSeq(p, index2, Len(p))>>
         ELSE IF normp[2] = Colon
              THEN <<SubSeq(p, 1, 2), SubSeq(p, 3, Len(p))>>
              ELSE <<<<>>, p>>
    ELSE <<<<>>, p>>

\* ntpath.join(path, p) for one appended component
join(path, p) ==
    The({LET rd == r[1]
             rp == r[2]
             pd == q[1]
             pp == q[2]
         IN  The({IF res[2] # <<>> /\ ~IsSep(res[2][1]) /\ res[1] # <<>>
                     /\ Last(res[1]) # Colon
                  THEN res[1] \o <<Sep>> \o res[2]
                  ELSE res[1] \o res[2] :
                  res \in {IF pp # <<>> /\ IsSep(pp[1])
                           THEN <<IF pd # <<>> \/ rd = <<>> THEN pd ELSE rd, pp>>
                           ELSE IF pd # <<>> /\ pd # rd /\ Lower(pd) # Lower(rd)
                                THEN <<pd, pp>>
                                ELSE <<IF pd # <<>> /\ pd # rd THEN pd ELSE rd,
                                       (IF rp # <<>> /\ ~IsSep(Last(rp))
                                        THEN rp \o <<Sep>> ELSE rp) \o pp>>}}) :
         r \in {splitdrive(path)}, q \in {splitdrive(p)}})

\* str.lstrip(sep)
RECURSIVE LStrip(_)
LStrip(p) == IF p # <<>> /\ p[1] = Sep THEN LStrip(Tail(p)) ELSE p

\* str.split(sep): the components between separators
RECURSIVE SplitSep(_)
SplitSep(p) ==
    LET i == Find(p, Sep, 1) IN
    IF i = 0 THEN <<p>>
    ELSE <<SubSeq(p, 1, i - 1)>> \o SplitSep(SubSeq(p, i + 1, Len(p)))

\* sep.join(comps)
RECURSIVE JoinSep(_)
JoinSep(comps) ==
    IF comps = <<>> THEN <<>>
    ELSE IF Len(comps) = 1 THEN comps[1]
    ELSE comps[1] \o <<Sep>> \o JoinSep(Tail(comps))

CurDir == <<".">>

ParDir == <<".", ".">>

\* The while loop of ntpath.normpath: kept is comps[0:i], todo is comps[i:]
RECURSIVE Collapse(_, _, _)
Collapse(kept, todo, rooted) ==
    IF todo = <<>> THEN kept
    ELSE LET c == Head(todo) IN
         IF c = <<>> \/ c = CurDir
         THEN Collapse(kept, Tail(todo), rooted)
         ELSE IF c = ParDir
              THEN IF kept # <<>> /\ Last(kept) # ParDir
                   THEN Collapse(SubSeq(kept, 1, Len(kept) - 1), Tail(todo), rooted)
                   ELSE IF kept = <<>> /\ rooted
                        THEN Collapse(kept, Tail(todo), rooted)
                        ELSE Collapse(Append(kept, c), Tail(todo), rooted)
              ELSE Collapse(Append(kept, c), Tail(todo), rooted)

\* ntpath.normpath
normpath(path) ==
    The({LET rooted == sd[2] # <<>> /\ sd[2][1] = Sep
             prefix == IF rooted THEN sd[1] \o <<Sep>> ELSE sd[1]
             body   == IF rooted THEN LStrip(sd[2]) ELSE sd[2]
         IN  The({prefix \o JoinSep(IF prefix = <<>> /\ comps = <<>>
                                    THEN <<CurDir>> ELSE comps) :
                  comps \in {Collapse(<<>>, SplitSep(body),
                                      prefix # <<>> /\ Last(prefix) = Sep)}}) :
         sd \in {splitdrive(np) : np \in {ReplaceAlt(path)}}})

\* ntpath.basename: what follows the last separator of the drive-less part
basename(p) ==
    The({LET seps == {i \in 1..Len(rest) : IsSep(rest[i])}
             cut  == IF seps = {} THEN 0
                     ELSE CHOOSE i \in seps : \A j \in seps : j <= i
         IN  SubSeq(rest, cut + 1, Len(rest)) :
         rest \in {splitdrive(p)[2]}})

\* ClientCmd._path_for
PathFor(cur, path) == The({normpath(joined) : joined \in {join(cur, path)}})

\* ------------------------------------------------------------------------
\* format_size: byte counts are base-1024 digit sequences, most
\* significant digit first (1536 is <<1, 512>>, 0 is <<0>>)
\* ------------------------------------------------------------------------

Units == <<"", "Ki", "Mi", "Gi", "Ti", "Pi", "Ei", "Zi">>

\* What a Python function returns when it falls off its end
None == "None"

\* 10 * 0.f1 f2 ... fk (base 1024) = carry + 0.r1 r2 ... rk
RECURSIVE Mul10(_)
Mul10(frac) ==
    IF frac = <<>> THEN [carry |-> 0, rem |-> <<>>]
    ELSE LET t == Mul10(Tail(frac))
             v == 10 * Head(frac) + t.carry
         IN  [carry |-> v \div 1024, rem |-> <<v % 1024>> \o t.rem]

IsZero(ds) == \A i \in 1..Len(ds) : ds[i] = 0

\* "%3.1f%s%s" % (num, unit, suffix), num = whole + 0.frac: the nearest
\* tenth, ties to the even tenth
Render(whole, frac, unit, suffix) ==
    LET m      == Mul10(frac)
        half   == IF m.rem = <<>> THEN "below"
                  ELSE IF m.rem[1] > 512 THEN "above"
                  ELSE IF m.rem[1] < 512 THEN "below"
                  ELSE IF IsZero(Tail(m.rem)) THEN "tie" ELSE "above"
        up     == half = "above" \/ (half = "tie" /\ m.carry % 2 = 1)
        tenths == 10 * whole + m.carry + (IF up THEN 1 ELSE 0)
    IN  ToString(tenths \div 10) \o "." \o ToString(tenths % 10) \o unit \o suffix

\* The for loop of format_size: num is whole + 0.frac at unit number u;
\* "num /= 1024.0" moves the last whole digit behind the point
RECURSIVE FormatLoop(_, _, _, _)
FormatLoop(u, whole, frac, suffix) ==
    IF u > Len(Units) THEN None
    ELSE IF Len(whole) <= 1
         THEN Render(IF whole = <<>> THEN 0 ELSE whole[1], frac, Units[u], suffix)
         ELSE FormatLoop(u + 1, SubSeq(whole, 1, Len(whole) - 1),
                         <<Last(whole)>> \o frac, suffix)

\* The ten bits of a base-1024 digit, most significant first
DigitBits(d) == [i \in 1..10 |-> (d \div (2 ^ (10 - i))) % 2]

RECURSIVE BitsOf(_)
BitsOf(ds) == IF ds = <<>> THEN <<>> ELSE DigitBits(Head(ds)) \o BitsOf(Tail(ds))

RECURSIVE StripZeros(_)
StripZeros(bs) == IF bs # <<>> /\ bs[1] = 0 THEN StripZeros(Tail(bs)) ELSE bs

\* Binary increment; the result is one bit longer when every bit was 1
RECURSIVE IncBits(_)
IncBits(bs) ==
    IF bs = <<>> THEN <<1>>
    ELSE IF Last(bs) = 0
         THEN SubSeq(bs, 1, Len(bs) - 1) \o <<1>>
         ELSE IncBits(SubSeq(bs, 1, Len(bs) - 1)) \o <<0>>

RECURSIVE DigitsOf(_)
DigitsOf(bs) ==
    IF bs = <<>> THEN <<>>
    ELSE DigitsOf(SubSeq(bs, 1, Len(bs) - 10)) \o
         <<LET t == SubSeq(bs, Len(bs) - 9, Len(bs))
               RECURSIVE Val(_)
               Val(x) == IF x = <<>> THEN 0 ELSE 2 * Val(SubSeq(x, 1, Len(x) - 1)) + Last(x)
           IN  Val(t)>>

\* Significant bits of a Python float
MantissaBits == 53

\* float(num) for an int: the nearest value with 53 significant bits, ties
\* to even (what "num /= 1024.0" does to its left operand first)
ToFloat(ds) ==
    LET bs == StripZeros(BitsOf(ds))
        n  == Len(bs)
    IN  IF n <= MantissaBits THEN ds
        ELSE LET kept == SubSeq(bs, 1, MantissaBits)
                 rest == SubSeq(bs, MantissaBits + 1, n)
                 up   == rest[1] = 1 /\
                         (kept[MantissaBits] = 1 \/ ~IsZero(Tail(rest)))
                 k2   == IF up THEN IncBits(kept) ELSE kept
                 all  == k2 \o [i \in 1..(n - MantissaBits) |-> 0]
                 padn == (10 - (Len(all) % 10)) % 10
             IN  DigitsOf([i \in 1..padn |-> 0] \o all)

format_size(num) ==
    IF Len(num) <= 1
    THEN FormatLoop(1, num, <<>>, "B")
    ELSE LET f == ToFloat(num)
         IN  FormatLoop(2, SubSeq(f, 1, Len(f) - 1), <<Last(f)>>, "B")

\* ------------------------------------------------------------------------
\* print_filelist: entries are <<filename, isdir, size string>>
\* ------------------------------------------------------------------------

\* Code points of the characters the model uses
Ord(c) ==
    CASE c = "." -> 46
      [] c = "/" -> 47
      [] c = ":" -> 58
      [] c = "A" -> 65
      [] c = "B" -> 66
      [] c = "\\" -> 92
      [] c = "a" -> 97
      [] c = "b" -> 98

\* Python's str < str
RECURSIVE StrLess(_, _)
StrLess(x, y) ==
    IF y = <<>> THEN FALSE
    ELSE IF x = <<>> THEN TRUE
    ELSE IF Ord(x[1]) # Ord(y[1]) THEN Ord(x[1]) < Ord(y[1])
    ELSE StrLess(Tail(x), Tail(y))

\* Mutant of SortKey: the name is compared as it is spelled
SortKey_raw(f) == <<~f[2], f[1]>>

\* key=lambda f: (not f[1], f[0].lower())
SortKey(f) == <<~f[2], Lower(f[1])>>

\* Python's tuple <, False < True
KeyLess(k1, k2) ==
    IF k1[1] # k2[1] THEN k2[1] ELSE StrLess(k1[2], k2[2])

\* list.sort(key=...) is stable: an entry goes behind every entry whose
\* key is not greater
RECURSIVE InsertSorted(_, _)
InsertSorted(sorted, f) ==
    IF sorted = <<>> THEN <<f>>
    ELSE IF KeyLess(SortKey(f), SortKey(Head(sorted)))
         THEN <<f>> \o sorted
         ELSE <<Head(sorted)>> \o InsertSorted(Tail(sorted), f)

RECURSIVE SortList(_)
SortList(fl) ==
    IF fl = <<>> THEN <<>>
    ELSE InsertSorted(SortList(SubSeq(fl, 1, Len(fl) - 1)), Last(fl))

Max(S) == CHOOSE m \in S : \A x \in S : x <= m

\* The rows print() writes: size right-aligned in width w, then the name
RECURSIVE Rows(_, _)
Rows(fl, w) ==
    IF fl = <<>> THEN <<>>
    ELSE IF Head(fl)[1] \in {CurDir, ParDir}
         THEN Rows(Tail(fl), w)
         ELSE <<[pad |-> w - Len(Head(fl)[3]), size |-> Head(fl)[3],
                 name |-> Head(fl)[1]]>> \o Rows(Tail(fl), w)

\* print_filelist: the printed rows, or the exception max() raises on an
\* empty list
print_filelist(filelist) ==
    IF filelist = <<>>
    THEN [raised |-> "ValueError", rows |-> <<>>]
    ELSE [raised |-> "",
          rows |-> Rows(SortList(filelist),
                        Max({Len(filelist[i][3]) : i \in 1..Len(filelist)}))]

\* ------------------------------------------------------------------------
\* Bounds and input sets
\* ------------------------------------------------------------------------

\* Longest remote path the shell is driven to
MaxPathLen == 3

\* Longest path fragment typed as an argument
MaxFragLen == 2

\* SMBConnection objects created over one run
MaxSessions == 2

\* Size in bytes of every remote file that can be downloaded
MaxBytes == 1

PathChars == {Sep, AltSep, ".", Colon, "a"}

SeqsUpTo(S, n) == UNION {[1..k -> S] : k \in 0..n}

\* Path fragments after shlex: any string over PathChars
Frags == SeqsUpTo(PathChars, MaxFragLen)

\* What shlex.split raises on an unbalanced quote
ShlexError == <<<<"ValueError">>>>

Root == <<Sep>>

\* cur_dir before _connect has assigned it
NoDir == <<>>

\* Outcomes of one call into the SMB library
Ok == "ok"

OperationFailure == "OperationFailure"

OtherError == "OtherError"

\* One library / system call as the shell issues it
Call(f, s, ip, a, b) == [f |-> f, s |-> s, ip |-> ip, a |-> a, b |-> b]

\* ------------------------------------------------------------------------
\* State
\* ------------------------------------------------------------------------

VARIABLES
    phase,      \* "new"; "prompt": cmdloop waits for a line; "done": a
                \* command has returned; "quit"; "crashed": an exception
                \* left cmdloop
    conn,       \* self.conn: 0 is None, else the SMBConnection object
    sess,       \* each SMBConnection: "unused", "created", "half", "open",
                \* "unauth", "closed"
    cur_dir,    \* self.cur_dir
    lcwd,       \* os.getcwd()
    lfiles,     \* local files: <<dir, name>> -> size in bytes
    last        \* the last command: its name, inputs, calls, output

vars == <<phase, conn, sess, cur_dir, lcwd, lfiles, last>>

Sessions == 1..MaxSessions

\* SMBConnection objects whose socket is open
Live == {s \in Sessions : sess[s] \in {"half", "open", "unauth"}}

Done(op, args, raised, calls, printed) ==
    [op |-> op, args |-> args, raised |-> raised, calls |-> calls,
     printed |-> printed]

\* What the SMB server may answer on self.conn
ServerOutcomes ==
    IF conn # 0 /\ sess[conn] = "open"
    THEN {Ok, OperationFailure, OtherError}
    ELSE {OtherError}

\* cmd.Cmd.onecmd does not catch: an exception leaves cmdloop
AfterCmd(raised) == IF raised = "" THEN "done" ELSE "crashed"

HOME == "~"

LocalDirs == {HOME, "d"}

\* ------------------------------------------------------------------------
\* Connecting
\* ------------------------------------------------------------------------

NoIP == ""

EOFError == "EOFError"

\* Mutant of complete_config: an ambiguous answer is resolved to its first
\* address
complete_config_first(cfgip, results, typed) ==
    IF cfgip # NoIP
    THEN [raised |-> "", ip |-> cfgip, calls |-> <<>>, printed |-> <<>>]
    ELSE LET q == <<Call("queryName", 0, NoIP, <<>>, <<>>)>> IN
         IF results = <<>>
         THEN [raised  |-> IF typed = EOFError THEN EOFError ELSE "",
               ip      |-> IF typed = EOFError THEN NoIP ELSE typed,
               calls   |-> q \o <<Call("input", 0, NoIP, <<>>, <<>>)>>,
               printed |-> <<"[Error] Name resolution failed. Please enter the 3DS IP manually.">>]
         ELSE [raised |-> "", ip |-> results[1], calls |-> q, printed |-> <<>>]

\* complete_config, the part that settles config["serverip"]: cfgip is the
\* --ip option, results what NetBIOS.queryName returns, typed what the user
\* answers to "IP: "
complete_config(cfgip, results, typed) ==
    IF cfgip # NoIP
    THEN [raised |-> "", ip |-> cfgip, calls |-> <<>>, printed |-> <<>>]
    ELSE LET q == <<Call("queryName", 0, NoIP, <<>>, <<>>)>> IN
         IF results = <<>> \/ Len(results) > 1
         THEN [raised  |-> IF typed = EOFError THEN EOFError ELSE "",
               ip      |-> IF typed = EOFError THEN NoIP ELSE typed,
               calls   |-> q \o <<Call("input", 0, NoIP, <<>>, <<>>)>>,
               printed |-> <<"[Error] Name resolution failed. Please enter the 3DS IP manually.">>]
         ELSE [raised |-> "", ip |-> results[1], calls |-> q, printed |-> <<>>]

\* Mutant of CloseExisting: the old connection is dropped without close()
CloseExisting_skip == [calls |-> <<>>, sess |-> sess]

\* "if self.conn is not None: self.conn.close()"
CloseExisting ==
    IF conn # 0
    THEN [calls |-> <<Call("close", conn, NoIP, <<>>, <<>>)>>,
          sess  |-> [sess EXCEPT ![conn] = "closed"]]
    ELSE [calls |-> <<>>, sess |-> sess]

\* ClientCmd._connect; how is what SMBConnection.connect does: "ok",
\* "authfail" (returns False), "refused" (raises, no socket), "timeout"
\* (raises, socket open)
Connect(op, cfgip, results, typed, how) ==
    /\ \E new \in Sessions :
        /\ sess[new] = "unused"
        /\ \A s \in Sessions : s < new => sess[s] # "unused"
        /\ LET closing == CloseExisting.calls
               sess1   == CloseExisting.sess
               cc      == complete_config(cfgip, results, typed)
               args    == <<cfgip, results, typed, how>>
           IN  IF cc.raised # ""
               THEN /\ sess' = sess1
                    /\ phase' = "crashed"
                    /\ last' = Done(op, args, cc.raised, closing \o cc.calls, cc.printed)
                    /\ UNCHANGED <<conn, cur_dir>>
               ELSE LET cn == <<Call("connect", new, cc.ip, <<>>, <<>>)>> IN
                    /\ conn' = new
                    /\ IF how \in {"ok", "authfail"}
                       THEN /\ sess' = [sess1 EXCEPT ![new] =
                                          IF how = "ok" THEN "open" ELSE "unauth"]
                            /\ cur_dir' = Root
                            /\ phase' = "done"
                            /\ last' = Done(op, args, "", closing \o cc.calls \o cn,
                                            cc.printed \o <<"Connected to">>)
                       ELSE /\ sess' = [sess1 EXCEPT ![new] =
                                          IF how = "timeout" THEN "half" ELSE "created"]
                            /\ phase' = "crashed"
                            /\ last' = Done(op, args, OtherError,
                                            closing \o cc.calls \o cn, cc.printed)
                            /\ UNCHANGED cur_dir
    /\ UNCHANGED <<lcwd, lfiles>>

ResolvedIPs == {"ip1", "ip2"}

QueryResults == {<<>>, <<"ip1">>, <<"ip1", "ip2">>}

ConnectInputs ==
    {<<"given", <<>>, "typed", h>> : h \in {"ok", "authfail", "refused", "timeout"}}
    \cup {<<NoIP, r, t, h>> : r \in QueryResults, t \in {"typed", EOFError},
                              h \in {"ok", "refused"}}

\* ClientCmd.__init__
Construct ==
    /\ phase = "new"
    /\ \E i \in ConnectInputs : Connect("init", i[1], i[2], i[3], i[4])

\* _connect called again on the same shell
Reconnect ==
    /\ phase = "prompt"
    /\ \E i \in ConnectInputs : Connect("connect", i[1], i[2], i[3], i[4])

\* ------------------------------------------------------------------------
\* Remote navigation
\* ------------------------------------------------------------------------

\* Mutant of change_dir: the cursor is assigned before the list call
change_dir_optimistic(path, outcome) ==
    [cur_dir |-> IF outcome = OtherError THEN cur_dir ELSE path,
     raised  |-> IF outcome = OtherError THEN OtherError ELSE "",
     calls   |-> <<Call("listPath", conn, NoIP, path, <<>>)>>,
     printed |-> IF outcome = OperationFailure
                 THEN <<"[Error] Failed to change directory:">> ELSE <<>>]

\* ClientCmd._change_dir
change_dir(path, outcome) ==
    [cur_dir |-> IF outcome = Ok THEN path ELSE cur_dir,
     raised  |-> IF outcome = OtherError THEN OtherError ELSE "",
     calls   |-> <<Call("listPath", conn, NoIP, path, <<>>)>>,
     printed |-> IF outcome = OperationFailure
                 THEN <<"[Error] Failed to change directory:">> ELSE <<>>]

do_cd(args, outcome) ==
    /\ phase = "prompt"
    /\ UNCHANGED <<conn, sess, lcwd, lfiles>>
    /\ IF args = ShlexError
       THEN /\ phase' = "crashed"
            /\ last' = Done("cd", args, "ValueError", <<>>, <<>>)
            /\ UNCHANGED cur_dir
       ELSE IF Len(args) > 1
       THEN /\ phase' = "done"
            /\ last' = Done("cd", args, "", <<>>, <<"[Error] Too many arguments">>)
            /\ UNCHANGED cur_dir
       ELSE \E path \in {IF args = <<>> THEN Root ELSE PathFor(cur_dir, args[1])} :
            LET r == change_dir(path, outcome)
            IN  /\ Len(path) <= MaxPathLen
                /\ cur_dir' = r.cur_dir
                /\ phase' = AfterCmd(r.raised)
                /\ last' = Done("cd", args, r.raised, r.calls, r.printed)

CdArgs == {ShlexError, <<>>, <<<<"a">>, <<"a">>>>} \cup {<<f>> : f \in Frags}

\* ------------------------------------------------------------------------
\* Commands that loop over their arguments, one library call each
\* ------------------------------------------------------------------------

\* How far a loop of k calls gets: <<n, exc>> is n calls returning and, when
\* exc is not "", the next one raising exc
Progress(k) ==
    IF k = 0 THEN {<<0, "">>}
    ELSE IF conn # 0 /\ sess[conn] = "open"
         THEN {<<k, "">>} \cup
              {<<n, e>> : n \in 0..(k - 1), e \in {OperationFailure, OtherError}}
         ELSE {<<0, OtherError>>}

\* The calls a loop issued: the ones that returned and the one that raised
Issued(calls, prog) ==
    SubSeq(calls, 1, IF prog[2] = "" THEN prog[1] ELSE prog[1] + 1)

\* A command that leaves everything but phase and last alone
Finish(op, args, raised, calls, printed) ==
    /\ phase' = AfterCmd(raised)
    /\ last' = Done(op, args, raised, calls, printed)

\* do_mkdir and do_rm: "for arg in args: self.conn.<f>(service, _path_for(arg))"
ForEachArg(op, f, missing, args, prog) ==
    /\ phase = "prompt"
    /\ UNCHANGED <<conn, sess, cur_dir, lcwd, lfiles>>
    /\ IF args = ShlexError
       THEN Finish(op, args, "ValueError", <<>>, <<>>)
       ELSE IF args = <<>>
       THEN Finish(op, args, "", <<>>, <<missing>>)
       ELSE /\ prog \in Progress(Len(args))
            /\ \E calls \in {[i \in 1..Len(args) |->
                                Call(f, conn, NoIP, PathFor(cur_dir, args[i]), <<>>)]} :
                    Finish(op, args, prog[2], Issued(calls, prog), <<>>)

do_mkdir(args, prog) ==
    ForEachArg("mkdir", "createDirectory", "Error: Directory name is missing", args, prog)

do_rm(args, prog) ==
    ForEachArg("rm", "deleteFiles", "[Error] File name is missing", args, prog)

\* do_rmdir(self, arg) reads arg_str, a name it never binds: NameError
\* before anything else happens
do_rmdir(args) ==
    /\ phase = "prompt"
    /\ UNCHANGED <<conn, sess, cur_dir, lcwd, lfiles>>
    /\ Finish("rmdir", args, "NameError", <<>>, <<>>)

do_mv(args, prog) ==
    /\ phase = "prompt"
    /\ UNCHANGED <<conn, sess, cur_dir, lcwd, lfiles>>
    /\ IF args = ShlexError
       THEN Finish("mv", args, "ValueError", <<>>, <<>>)
       ELSE IF args = <<>>
       THEN Finish("mv", args, "", <<>>, <<"[Error] File name is missing">>)
       ELSE IF Len(args) = 1
       THEN Finish("mv", args, "", <<>>, <<"[Error] New name is missing">>)
       ELSE LET n == Len(args) IN
            /\ prog \in Progress(IF n = 2 THEN 1 ELSE n - 1)
            /\ \E dest_dir \in {PathFor(cur_dir, args[n])} :
               \E calls \in
                    {IF n = 2
                     THEN <<Call("rename", conn, NoIP,
                                 PathFor(cur_dir, args[1]), dest_dir)>>
                     ELSE [i \in 1..(n - 1) |->
                             Call("rename", conn, NoIP, PathFor(cur_dir, args[i]),
                                  join(dest_dir, basename(args[i])))]} :
                    Finish("mv", args, prog[2], Issued(calls, prog),
                           IF n = 2 THEN <<>>
                           ELSE [i \in 1..Len(Issued(calls, prog)) |-> "Moving"])

\* ------------------------------------------------------------------------
\* Listings
\* ------------------------------------------------------------------------

\* The filelist do_ls builds from the SharedFile objects listPath returns:
\* resp entries are <<filename, isDirectory, file_size>>
RemoteFilelist(resp) ==
    [i \in 1..Len(resp) |->
        IF resp[i][2] THEN <<resp[i][1], TRUE, "-">>
        ELSE <<resp[i][1], FALSE, format_size(resp[i][3])>>]

\* Mutant of do_ls: a listed directory becomes the current one
do_ls_follow(args, outcome, resp) ==
    /\ phase = "prompt"
    /\ UNCHANGED <<conn, sess, lcwd, lfiles>>
    /\ IF args = ShlexError
       THEN Finish("ls", args, "ValueError", <<>>, <<>>) /\ UNCHANGED cur_dir
       ELSE IF Len(args) > 1
       THEN Finish("ls", args, "", <<>>, <<"Too many arguments">>) /\ UNCHANGED cur_dir
       ELSE \E path \in {IF args = <<>> THEN cur_dir ELSE PathFor(cur_dir, args[1])},
               pr \in {print_filelist(RemoteFilelist(resp))} :
                LET calls == <<Call("listPath", conn, NoIP, path, <<>>)>>
                IN  IF outcome = Ok
                    THEN Finish("ls", args, pr.raised, calls, pr.rows) /\ cur_dir' = path
                    ELSE Finish("ls", args, outcome, calls, <<>>) /\ UNCHANGED cur_dir

do_ls(args, outcome, resp) ==
    /\ phase = "prompt"
    /\ UNCHANGED <<conn, sess, cur_dir, lcwd, lfiles>>
    /\ IF args = ShlexError
       THEN Finish("ls", args, "ValueError", <<>>, <<>>)
       ELSE IF Len(args) > 1
       THEN Finish("ls", args, "", <<>>, <<"Too many arguments">>)
       ELSE \E path \in {IF args = <<>> THEN cur_dir ELSE PathFor(cur_dir, args[1])},
               pr \in {print_filelist(RemoteFilelist(resp))} :
                LET calls == <<Call("listPath", conn, NoIP, path, <<>>)>>
                IN  IF outcome = Ok
                    THEN Finish("ls", args, pr.raised, calls, pr.rows)
                    ELSE Finish("ls", args, outcome, calls, <<>>)

\* ClientCmd._lpath_for for a name relative to the working directory
LPathFor(name) == <<lcwd, name>>

\* Names that open() refuses because they denote a directory
IsDirName(name) == name \in {<<>>, CurDir, ParDir}

FileSize(path) == lfiles[path]

\* The filelist do_lls builds from os.listdir(dir); the modelled
\* directories hold plain files only
RECURSIVE LocalFilelist(_)
LocalFilelist(paths) ==
    IF paths = {} THEN <<>>
    ELSE LET p == CHOOSE q \in paths : TRUE
         IN  <<<<p[2], FALSE, format_size(<<FileSize(p)>>)>>>>
             \o LocalFilelist(paths \ {p})

\* Directory arguments of lls and lcd: home, an existing directory, a
\* missing one
ArgHome == <<"~">>

ArgD == <<"/", "d">>

ArgNoDir == <<"/", "x">>

DirOf(arg) == IF arg = ArgHome THEN HOME ELSE IF arg = ArgD THEN "d" ELSE "nodir"

do_lls(args) ==
    /\ phase = "prompt"
    /\ UNCHANGED <<conn, sess, cur_dir, lcwd, lfiles>>
    /\ IF args = ShlexError
       THEN Finish("lls", args, "ValueError", <<>>, <<>>)
       ELSE IF Len(args) > 1
       THEN Finish("lls", args, "", <<>>, <<"Too many arguments">>)
       ELSE LET dir == IF args = <<>> THEN lcwd ELSE DirOf(args[1])
            IN  IF dir \notin LocalDirs
                THEN Finish("lls", args, "OSError", <<>>, <<>>)
                ELSE \E pr \in {print_filelist(
                                    LocalFilelist({p \in DOMAIN lfiles : p[1] = dir}))} :
                        Finish("lls", args, pr.raised, <<>>, pr.rows)

do_lcd(args) ==
    /\ phase = "prompt"
    /\ UNCHANGED <<conn, sess, cur_dir, lfiles>>
    /\ IF args = ShlexError
       THEN Finish("lcd", args, "ValueError", <<>>, <<>>) /\ UNCHANGED lcwd
       ELSE IF Len(args) > 1
       THEN /\ Finish("lcd", args, "", <<>>, <<"[Error] Too many arguments">>)
            /\ UNCHANGED lcwd
       ELSE LET dir == IF args = <<>> THEN HOME ELSE DirOf(args[1])
            IN  IF dir \notin LocalDirs
                THEN Finish("lcd", args, "OSError", <<>>, <<>>) /\ UNCHANGED lcwd
                ELSE Finish("lcd", args, "", <<>>, <<>>) /\ lcwd' = dir

\* ------------------------------------------------------------------------
\* Transfers
\* ------------------------------------------------------------------------

\* lfiles after open(dest, "wb"): the file exists and is empty
Truncated(files, dest) == (dest :> 0) @@ files

\* One "with open(dest, "wb") as localfile: retrieveFile(service, src,
\* localfile)".  openok: the local open succeeds; n: the bytes retrieveFile
\* writes before it returns or raises exc
Download(files, src, dest, openok, n, exc) ==
    IF IsDirName(dest[2]) \/ ~openok
    THEN [files |-> files, raised |-> "OSError",
          calls |-> <<Call("open", 0, NoIP, dest[2], <<"w", "b">>)>>]
    ELSE [files  |-> (dest :> n) @@ Truncated(files, dest),
          raised |-> exc,
          calls  |-> <<Call("open", 0, NoIP, dest[2], <<"w", "b">>),
                       Call("retrieveFile", conn, NoIP, src, dest[2])>>]

\* What one retrieveFile or storeFile may do: <<n, exc>>
TransferOutcomes ==
    IF conn # 0 /\ sess[conn] = "open"
    THEN {<<MaxBytes, "">>} \cup
         {<<n, e>> : n \in 0..(MaxBytes - 1), e \in {OperationFailure, OtherError}}
    ELSE {<<0, OtherError>>}

do_get(args, openok, t) ==
    /\ phase = "prompt"
    /\ UNCHANGED <<conn, sess, cur_dir, lcwd>>
    /\ IF args = ShlexError
       THEN /\ Finish("get", <<args, 0, openok, t>>, "ValueError", <<>>, <<>>)
            /\ UNCHANGED lfiles
       ELSE IF args = <<>>
       THEN /\ Finish("get", <<args, 0, openok, t>>, "", <<>>,
                      <<"[Error] File name is missing">>)
            /\ UNCHANGED lfiles
       ELSE IF Len(args) > 2
       THEN /\ Finish("get", <<args, 0, openok, t>>, "", <<>>,
                      <<"[Error] Too many arguments">>)
            /\ UNCHANGED lfiles
       ELSE \E src \in {PathFor(cur_dir, args[1])} :
            \E dest \in {IF Len(args) = 1 THEN LPathFor(basename(src))
                          ELSE LPathFor(args[2])} :
            \E d \in {Download(lfiles, src, dest, openok, t[1], t[2])} :
                /\ lfiles' = d.files
                /\ Finish("get", <<args, 0, openok, t>>, d.raised, d.calls, <<>>)

\* do_mget: the downloads of args[i..], the first k of them complete
RECURSIVE MGet(_, _, _, _, _, _)
MGet(files, args, i, k, openok, t) ==
    IF i > Len(args)
    THEN [files |-> files, raised |-> "", calls |-> <<>>]
    ELSE LET filename == basename(args[i])
             src      == PathFor(cur_dir, args[i])
             dest     == LPathFor(filename)
         IN  The({IF d.raised # ""
                  THEN d
                  ELSE The({[files |-> r.files, raised |-> r.raised,
                             calls |-> d.calls \o r.calls] :
                            r \in {MGet(d.files, args, i + 1, k, openok, t)}}) :
                  d \in {IF i <= k
                         THEN Download(files, src, dest, TRUE, MaxBytes, "")
                         ELSE Download(files, src, dest, openok, t[1], t[2])}})

do_mget(args, k, openok, t) ==
    /\ phase = "prompt"
    /\ UNCHANGED <<conn, sess, cur_dir, lcwd>>
    /\ IF args = ShlexError
       THEN /\ Finish("mget", <<args, k, openok, t>>, "ValueError", <<>>, <<>>)
            /\ UNCHANGED lfiles
       ELSE IF args = <<>>
       THEN /\ Finish("mget", <<args, k, openok, t>>, "", <<>>,
                      <<"[Error] File name is missing">>)
            /\ UNCHANGED lfiles
       ELSE /\ k \in 0..(Len(args) - 1)
            /\ \E r \in {MGet(lfiles, args, 1, k, openok, t)} :
                /\ lfiles' = r.files
                /\ Finish("mget", <<args, k, openok, t>>, r.raised, r.calls, <<>>)

\* One "with open(src, "rb") as localfile: storeFile(service, dest,
\* localfile)"
Upload(src, dest, exc) ==
    IF src \notin DOMAIN lfiles
    THEN [raised |-> "OSError",
          calls  |-> <<Call("open", 0, NoIP, src[2], <<"r", "b">>)>>]
    ELSE [raised |-> exc,
          calls  |-> <<Call("open", 0, NoIP, src[2], <<"r", "b">>),
                       Call("storeFile", conn, NoIP, dest, src[2])>>]

do_put(args, t) ==
    /\ phase = "prompt"
    /\ UNCHANGED <<conn, sess, cur_dir, lcwd, lfiles>>
    /\ IF args = ShlexError
       THEN Finish("put", args, "ValueError", <<>>, <<>>)
       ELSE IF args = <<>>
       THEN Finish("put", args, "", <<>>, <<"[Error] File name is missing">>)
       ELSE IF Len(args) > 2
       THEN Finish("put", args, "", <<>>, <<"[Error] Too many arguments">>)
       ELSE LET src  == LPathFor(args[1])
                dest == IF Len(args) = 1 THEN PathFor(cur_dir, src[2])
                        ELSE PathFor(cur_dir, args[2])
            IN  \E u \in {Upload(src, dest, t[2])} :
                    Finish("put", args, u.raised, u.calls, <<>>)

\* do_mput: the uploads of args[i..], the first k of them complete
RECURSIVE MPut(_, _, _, _)
MPut(args, i, k, t) ==
    IF i > Len(args)
    THEN [raised |-> "", calls |-> <<>>]
    ELSE The({IF u.raised # ""
              THEN u
              ELSE The({[raised |-> r.raised, calls |-> u.calls \o r.calls] :
                        r \in {MPut(args, i + 1, k, t)}}) :
              u \in {Upload(LPathFor(args[i]), PathFor(cur_dir, args[i]),
                            IF i <= k THEN "" ELSE t[2])}})

do_mput(args, k, t) ==
    /\ phase = "prompt"
    /\ UNCHANGED <<conn, sess, cur_dir, lcwd, lfiles>>
    /\ IF args = ShlexError
       THEN Finish("mput", args, "ValueError", <<>>, <<>>)
       ELSE IF args = <<>>
       THEN Finish("mput", args, "", <<>>, <<"[Error] File name is missing">>)
       ELSE /\ k \in 0..(Len(args) - 1)
            /\ \E r \in {MPut(args, 1, k, t)} :
                    Finish("mput", args, r.raised, r.calls, <<>>)

\* ------------------------------------------------------------------------
\* pwd, info, help, quit
\* ------------------------------------------------------------------------

do_pwd ==
    /\ phase = "prompt"
    /\ UNCHANGED <<conn, sess, cur_dir, lcwd, lfiles>>
    /\ Finish("pwd", <<>>, "", <<>>, <<"Remote:", "Local:">>)

do_info ==
    /\ phase = "prompt"
    /\ UNCHANGED <<conn, sess, cur_dir, lcwd, lfiles>>
    /\ Finish("info", <<>>, "", <<>>, <<"Capabilities:">>)

do_help ==
    /\ phase = "prompt"
    /\ UNCHANGED <<conn, sess, cur_dir, lcwd, lfiles>>
    /\ Finish("help", <<>>, "", <<>>, <<"help">>)

\* do_quit returns True: cmdloop ends, self.conn is left as it is
do_quit ==
    /\ phase = "prompt"
    /\ UNCHANGED <<conn, sess, cur_dir, lcwd, lfiles>>
    /\ phase' = "quit"
    /\ last' = Done("quit", <<>>, "", <<>>, <<>>)

\* ------------------------------------------------------------------------
\* The shell
\* ------------------------------------------------------------------------

\* cmd.Cmd.cmdloop: the command returned without stopping the loop, the
\* next prompt is shown
Prompt ==
    /\ phase = "done"
    /\ phase' = "prompt"
    /\ last' = Done("none", <<>>, "", <<>>, <<>>)
    /\ UNCHANGED <<conn, sess, cur_dir, lcwd, lfiles>>

FragA == <<"a">>

\* Argument lists of the commands that take remote paths
PathArgs ==
    {ShlexError, <<>>, <<FragA>>, <<ParDir>>, <<FragA, FragA>>,
     <<FragA, FragA, FragA>>}

\* Responses of listPath: <<filename, isDirectory, file_size>>
Responses ==
    {<<>>,
     <<<<CurDir, TRUE, <<0>>>>, <<ParDir, TRUE, <<0>>>>>>,
     <<<<CurDir, TRUE, <<0>>>>, <<ParDir, TRUE, <<0>>>>,
       <<<<"b">>, FALSE, <<1, 512>>>>, <<<<"A">>, TRUE, <<0>>>>,
       <<<<"a">>, FALSE, <<1023, 1023, 1023, 1023, 1023, 1023>>>>>>}

LocalArgs ==
    {ShlexError, <<>>, <<ArgHome>>, <<ArgD>>, <<ArgNoDir>>, <<ArgHome, ArgD>>}

Init ==
    /\ phase = "new"
    /\ conn = 0
    /\ sess = [s \in Sessions |-> "unused"]
    /\ cur_dir = NoDir
    /\ lcwd = HOME
    /\ lfiles = [p \in {} |-> 0]
    /\ last = Done("none", <<>>, "", <<>>, <<>>)

\* cmd.Cmd.cmdloop: a handler runs on a line read at the prompt, with the
\* arguments and the answers of the server and the system drawn here
Next ==
    \/ Construct
    \/ Reconnect
    \/ Prompt
    \/ phase = "prompt" /\ \E a \in CdArgs, o \in ServerOutcomes : do_cd(a, o)
    \/ phase = "prompt" /\ \E a \in PathArgs, o \in ServerOutcomes, r \in Responses :
          do_ls(a, o, r)
    \/ phase = "prompt" /\ \E a \in LocalArgs : do_lls(a)
    \/ phase = "prompt" /\ \E a \in LocalArgs : do_lcd(a)
    \/ phase = "prompt" /\ \E a \in PathArgs, g \in Progress(3) \cup Progress(0) :
          do_mkdir(a, g)
    \/ phase = "prompt" /\ \E a \in PathArgs, g \in Progress(3) \cup Progress(0) :
          do_rm(a, g)
    \/ phase = "prompt" /\ \E a \in PathArgs : do_rmdir(a)
    \/ phase = "prompt" /\ \E a \in PathArgs, g \in Progress(2) \cup Progress(0) :
          do_mv(a, g)
    \/ phase = "prompt" /\ \E a \in PathArgs, ok \in BOOLEAN, t \in TransferOutcomes :
          do_get(a, ok, t)
    \/ phase = "prompt" /\ \E a \in PathArgs, k \in 0..2, ok \in BOOLEAN,
                               t \in TransferOutcomes : do_mget(a, k, ok, t)
    \/ phase = "prompt" /\ \E a \in PathArgs, t \in TransferOutcomes : do_put(a, t)
    \/ phase = "prompt" /\ \E a \in PathArgs, k \in 0..2, t \in TransferOutcomes :
          do_mput(a, k, t)
    \/ do_pwd
    \/ do_info
    \/ do_help
    \/ do_quit

Spec == Init /\ [][Next]_vars

\* ------------------------------------------------------------------------
\* format_size and print_filelist on their own inputs
\* ------------------------------------------------------------------------

\* Most base-1024 digits of a byte count: 9 digits reach 1024^8
MaxDigits == 9

LeadDigits == {1, 512, 1023}

TailDigits == {0, 512, 1023}

Sizes ==
    {<<0>>} \cup
    {<<l>> \o t : l \in LeadDigits, t \in SeqsUpTo(TailDigits, MaxDigits - 1)}

FormatSize ==
    /\ phase = "new" /\ last.op = "none"
    /\ \E num \in Sizes :
          last' = Done("format_size", num, "", <<>>, <<format_size(num)>>)
    /\ UNCHANGED <<phase, conn, sess, cur_dir, lcwd, lfiles>>

NextSize == FormatSize

SpecSize == Init /\ [][NextSize]_vars

\* Most entries of one batch
MaxEntries == 3

Names == {<<"A">>, <<"a">>, <<"B">>, <<"b">>}

Entries ==
    {<<n, TRUE, "-">> : n \in Names \cup {CurDir, ParDir}}
    \cup {<<n, FALSE, z>> : n \in Names, z \in {"0.0B", "1.5KiB"}}

Batches == SeqsUpTo(Entries, MaxEntries)

PrintFilelist ==
    /\ phase = "new" /\ last.op = "none"
    /\ \E fl \in Batches :
          LET pr == print_filelist(fl)
          IN  last' = Done("print_filelist", fl, pr.raised, <<>>, pr.rows)
    /\ UNCHANGED <<phase, conn, sess, cur_dir, lcwd, lfiles>>

NextList == PrintFilelist

SpecList == Init /\ [][NextList]_vars

\* ------------------------------------------------------------------------
\* Properties
\* ------------------------------------------------------------------------

RejectedMsg == "[Error] Failed to change directory:"

\* The last command was a cd whose validating list call was rejected
CdRejected(l) ==
    /\ l.op = "cd"
    /\ l.calls # <<>>
    /\ l.printed = <<RejectedMsg>>

\* The last command was a cd whose validating list call succeeded
CdAccepted(l) ==
    /\ l.op = "cd"
    /\ l.calls # <<>>
    /\ l.raised = ""
    /\ l.printed = <<>>

\* The last command was a _connect that returned
Connected(l) == l.op \in {"init", "connect"} /\ l.raised = ""

\* C1: a cd whose validating list call is rejected leaves the current
\* remote directory as it was, and the shell goes on to its next prompt.
C1_CdFailureKeepsCursor ==
    [][CdRejected(last') => (cur_dir' = cur_dir /\ phase' = "done")]_vars

\* A rejected cd away from a directory other than the root
C1_Witness ==
    /\ CdRejected(last)
    /\ phase = "done"
    /\ cur_dir = <<Sep, "a">>
    /\ last.calls[1].a = Root

\* C2: the current remote directory changes only in a cd whose list call
\* succeeded, to the listed path, or in a connect that returned, to the
\* share root; every other command, failing or not, leaves it alone.
C2_OnlyCdMovesCursor ==
    [][cur_dir' # cur_dir =>
          \/ CdAccepted(last') /\ last'.calls[1].a = cur_dir'
          \/ Connected(last') /\ cur_dir' = Root]_vars

\* A command other than cd has issued calls away from the root
C2_Witness ==
    /\ last.op \in {"ls", "mkdir", "rm", "mv", "get", "mget", "put", "mput"}
    /\ last.calls # <<>>
    /\ cur_dir = <<Sep, "a">>

\* A normalized absolute remote path: backslash-rooted, backslash-
\* separated, no empty, "." or ".." segment, no trailing separator but
\* the root's
Normalized(p) ==
    /\ p # <<>>
    /\ p[1] = Sep
    /\ \A i \in 1..Len(p) : p[i] # AltSep
    /\ \/ p = Root
       \/ LET comps == SplitSep(Tail(p))
          IN  \A i \in 1..Len(comps) : comps[i] \notin {<<>>, CurDir, ParDir}

\* C3: once connected the cursor is a normalized absolute remote path,
\* the share root right after every connect that returned.
C3_CursorNormalized ==
    /\ cur_dir # NoDir => Normalized(cur_dir)
    /\ (Connected(last) /\ phase = "done") => cur_dir = Root

\* Name resolution ran and did not return exactly one address
Unresolved(l) ==
    /\ l.op \in {"init", "connect"}
    /\ l.args[1] = NoIP
    /\ Len(l.args[2]) # 1

ConnectCalls(l) == {i \in 1..Len(l.calls) : l.calls[i].f = "connect"}

CloseCalls(l, s) == {i \in 1..Len(l.calls) : l.calls[i].f = "close" /\ l.calls[i].s = s}

\* C5: at most one SMBConnection has an open socket, and it is self.conn;
\* a _connect entered with an open connection closes it exactly once,
\* before it connects the new one.
C5_OneLiveSession ==
    /\ [](Cardinality(Live) <= 1 /\ Live \subseteq {conn})
    /\ [][(last'.op = "connect" /\ conn \in Live) =>
            /\ Cardinality(CloseCalls(last', conn)) = 1
            /\ sess'[conn] = "closed"
            /\ \A k \in ConnectCalls(last') :
                  \A c \in CloseCalls(last', conn) : c < k]_vars

\* A second connection is open and the first one closed
C5_Witness ==
    /\ last.op = "connect"
    /\ conn = 2
    /\ sess[1] = "closed"
    /\ sess[2] = "open"

\* C6: a get or mget whose first remote read fails before any byte is
\* delivered leaves the local files as they were.
C6_FailedReadLeavesLocalFile ==
    [][(/\ last'.op \in {"get", "mget"}
        /\ last'.args[2] = 0
        /\ last'.args[4] = <<0, OperationFailure>>
        /\ last'.raised = OperationFailure) => lfiles' = lfiles]_vars

\* C7: rmdir with arguments issues deleteDirectory for them in order,
\* starting with the first; without arguments it reports the missing name
\* and issues nothing.
C7_RmdirDeletes ==
    (last.op = "rmdir" /\ last.args # ShlexError) =>
        IF last.args = <<>>
        THEN /\ last.raised = ""
             /\ last.calls = <<>>
             /\ last.printed = <<"[Error] Directory name is missing">>
        ELSE /\ last.calls # <<>>
             /\ Len(last.calls) <= Len(last.args)
             /\ \A i \in 1..Len(last.calls) :
                   last.calls[i] = Call("deleteDirectory", conn, NoIP,
                                        PathFor(cur_dir, last.args[i]), <<>>)

\* C8: _path_for returns a normalized absolute path unchanged, whatever
\* normalized cursor it is resolved against.
C8_AbsoluteResolvesToItself ==
    [][(/\ last'.op = "cd"
        /\ last'.args # ShlexError
        /\ Len(last'.args) = 1
        /\ Normalized(cur_dir)
        /\ Normalized(last'.args[1])) =>
            last'.calls[1].a = last'.args[1]]_vars

IsDirRow(r) == r.size = "-"

RowOf(f) == <<f[1], f[3]>>

\* C9: print_filelist prints every entry but "." and "..", each once,
\* directories before files, and within directories and within files in
\* ascending order of the lower-cased name.
C9_ListingOrder ==
    (last.op = "print_filelist" /\ last.raised = "") =>
        LET rows == last.printed
            fl   == last.args
            real == {i \in 1..Len(fl) : fl[i][1] \notin {CurDir, ParDir}}
        IN  /\ \A i \in 1..Len(rows) : rows[i].name \notin {CurDir, ParDir}
            /\ Len(rows) = Cardinality(real)
            /\ \A i \in real :
                  Cardinality({j \in real : RowOf(fl[j]) = RowOf(fl[i])}) =
                  Cardinality({j \in 1..Len(rows) :
                                  <<rows[j].name, rows[j].size>> = RowOf(fl[i])})
            /\ \A i, j \in 1..Len(rows) :
                  i < j =>
                     /\ ~(~IsDirRow(rows[i]) /\ IsDirRow(rows[j]))
                     /\ IsDirRow(rows[i]) = IsDirRow(rows[j]) =>
                           ~StrLess(Lower(rows[j].name), Lower(rows[i].name))

\* The batch b(file), A(directory), a(file) is printed as A, a, b
C9_Witness ==
    /\ last.op = "print_filelist"
    /\ last.args = << <<<<"b">>, FALSE, "0.0B">>, <<<<"A">>, TRUE, "-">>,
                      <<<<"a">>, FALSE, "1.5KiB">> >>
    /\ [i \in 1..Len(last.printed) |-> last.printed[i].name]
          = << <<"A">>, <<"a">>, <<"b">> >>

\* C10: format_size yields a rendered string for every byte count, and
\* "0.0B", "1.0KiB", "1.5KiB", "1.0MiB" for 0, 1024, 1536, 1048576.
C10_FormatSizeRenders ==
    last.op = "format_size" =>
        /\ last.printed[1] # None
        /\ last.args = <<0>> => last.printed[1] = "0.0B"
        /\ last.args = <<1, 0>> => last.printed[1] = "1.0KiB"
        /\ last.args = <<1, 512>> => last.printed[1] = "1.5KiB"
        /\ last.args = <<1, 0, 0>> => last.printed[1] = "1.0MiB"

====
